---- MODULE Spec2Model ----
(***************************************************************************)
(* Control core of the vas17 firmware 0.7.0 (firmware/src/main.c, lines    *)
(* 1-279): the naos callbacks online, offline and message, the control     *)
(* loop, and the encoder callback enc.                                     *)
(*                                                                         *)
(* Numbers.  The C doubles (position, target, rotation_change, the         *)
(* heights, winding_length, move_precision) are modelled by integers; the  *)
(* only division the code applies to them, move_precision / 2, is modelled *)
(* exactly by doubling both sides of the comparison.  The millisecond      *)
(* clock and last_motion are uint32_t; a value v is held as the pair of    *)
(* 16-bit limbs <<v \div 2^16, v % 2^16>> and the arithmetic is modulo     *)
(* 2^32.                                                                   *)
(*                                                                         *)
(* Scheduling.  naos runs loop, message, online, offline and the parameter *)
(* synchronisation under one mutex, so these never interleave.  enc is     *)
(* registered with the encoder driver (enc_init) and may run at any point  *)
(* of loop.  loop is therefore cut once, between the read of               *)
(* rotation_change (line 170) and its reset (line 173): everything before  *)
(* the cut neither reads nor writes what enc writes, and neither does      *)
(* anything after line 173, so the two halves have the same outcomes as    *)
(* the statement-by-statement interleaving.                                *)
(*                                                                         *)
(* Spec is the firmware from boot with the default speed profile; a run    *)
(* holds at most MaxEvents commands, updates and connection events and     *)
(* MaxEnc encoder callbacks, and any number of ticks.  SpecMotor runs the  *)
(* ticks alone from every position, target, precision, map range and speed *)
(* profile of the sets below.  SpecAtRest sends payloads without a number  *)
(* to a system at rest, SpecSense runs ticks and the encoder over a range  *)
(* of positions, rise heights and sensitivities, SpecIdle is automation    *)
(* settling at the idle height with an encoder that follows the motor, and *)
(* Spec010 is the loop and the commands of the 0.1.0 variant (lines        *)
(* 281-548), whose state is the record fw010.                              *)
(***************************************************************************)
EXTENDS Integers, Sequences, FiniteSets, TLC

(* ------------------------------ bounds -------------------------------- *)

\* the encoder callback fires at most MaxEnc times in a run
MaxEnc == 2

\* at most MaxEvents commands, parameter updates and connection events
\* arrive in a run
MaxEvents == 2

\* the millisecond clock is observed up to MaxClock
MaxClock == 2

\* width of one limb of a uint32_t
TwoPow16 == 65536

\* rotation deltas the encoder reports
Rotations == {1}

\* payloads of move and reset that parse as numbers
MoveTargets == {0, 3}
ResetPositions == {1}

\* the topics message handles, and topics that only drive the light
\* (flash-color does what flash does)
Topics == {"flash", "flash-color", "turn", "move", "stop", "reset", "disco"}
LedTopics == {"flash", "disco"}

\* <<topic, payload, scope>> of messages no branch of message acts on
StrayMessages == {<<"turn", "left", "local">>, <<"turn", "up", "global">>,
                  <<"move", "3", "global">>, <<"stop", "", "global">>,
                  <<"reset", "1", "global">>, <<"fog", "3", "local">>}

\* payloads of move and reset that hold no number
MalformedPayloads == {"", "x"}

\* positions at which SpecAtRest starts
AtRestPositions == -3 .. 3

\* positions, rise heights and sensitivities that SpecSense starts from
SensePositions == -2 .. 6
SenseHeights == {1, 4}
Sensitivities == {0, 2, 5}

\* the 0.1.0 variant: positions it is run over, targets and positions that
\* move and reset set, distance readings (dist_get, rounded) and rotation
\* deltas (enc_get)
Positions010 == 0 .. 8
Targets010 == {0, 4, 7}
Distances010 == {20, 25, 30}
Rotations010 == {-1, 0, 1}

\* positions SpecIdle starts from, and the presence readings of a room
\* without presence
IdleStarts == 96 .. 104
QuietSamples == {0}

\* raw presence readings (pir_read)
PirSamples == {0, 1, 3}

\* milliseconds that may pass between two observations of the clock
ClockSteps == {0, 1}

\* positions, targets, precisions, map ranges and speed profiles
\* <<min_up, max_up, min_down, max_down>> that SpecMotor starts from
MotorPositions == -4 .. 4
MotorTargets == {-1, 0, 3}
Precisions == {0, 1, 2}
MapRanges == {1, 3}
SpeedProfiles == {<<350, 950, 350, 500>>, <<1, 5, 2, 2>>, <<3, 3, 4, 4>>}

(* --------------------------- program state ---------------------------- *)

VARIABLES
  \* parameters (lines 17-31)
  automate, winding_length, idle_height, rise_height,
  min_down_speed, min_up_speed, max_down_speed, max_up_speed,
  speed_map_range, invert_encoder, move_precision,
  pir_sensitivity, pir_interval,
  \* variables (lines 35-41)
  rotation_change, motion, last_motion, manual, position, sent_position,
  target,
  \* collaborators
  clock,        \* milliseconds since boot (naos_millis)
  mot,          \* the argument of the latest mot_set call
  pc,           \* where loop stands: "idle" or "mid" (between 170 and 173)
  \* observation of the run
  op,           \* the operation that took the latest step
  mot_calls,    \* number of mot_set calls made by the latest step
  pub_motion,   \* motion values published by the latest step
  sent_motion,  \* the latest motion value ever published, <<>> if none
  pub_position, \* position values published by the latest step
  recorded,     \* sum of the deltas enc added to rotation_change
  drained,      \* sum of the values of rotation_change loop integrated
  enc_count,    \* number of enc calls so far
  events,       \* number of commands, updates and connection events so far
  cmd,          \* the latest command, update or connection event
  cmd_val,      \* the position that command left (stop, reset) or the
                \* target it set (move)
  ticks,        \* ticks completed since that command: 0, 1 or 2 (2 or more)
  threshold,    \* the presence threshold of the tick under way, <<>> when
                \* no tick is under way
  \* the 0.1.0 variant of the firmware (lines 281-548)
  fw010         \* its parameters and variables (lines 295-306) and the
                \* argument of its latest mot_set call, as a record

params == <<automate, winding_length, idle_height, rise_height,
            min_down_speed, min_up_speed, max_down_speed, max_up_speed,
            speed_map_range, invert_encoder, move_precision,
            pir_sensitivity, pir_interval>>

tunables == <<winding_length, idle_height, rise_height,
              min_down_speed, min_up_speed, max_down_speed, max_up_speed,
              speed_map_range, invert_encoder, move_precision,
              pir_sensitivity, pir_interval>>

history == <<recorded, drained, enc_count, events, cmd, cmd_val, ticks>>

vars == <<params, rotation_change, motion, last_motion, manual, position,
          sent_position, target, clock, mot, pc, op, mot_calls, pub_motion,
          sent_motion, pub_position, history, threshold, fw010>>

(* --------------------------- uint32_t values -------------------------- *)

\* the uint32_t whose value is the natural number n < 2^31
U32(n) == <<n \div TwoPow16, n % TwoPow16>>

\* a - b modulo 2^32
U32Sub(a, b) ==
  LET lo == a[2] - b[2]
      borrow == IF lo < 0 THEN 1 ELSE 0
      hi == a[1] - b[1] - borrow
  IN <<hi % TwoPow16, lo % TwoPow16>>

U32Gt(a, b) == a[1] > b[1] \/ (a[1] = b[1] /\ a[2] > b[2])

U32Lt(a, b) == U32Gt(b, a)

(* ------------------------------ art32 --------------------------------- *)

Abs(x) == IF x < 0 THEN -x ELSE x

\* C division of integers, and the (int) cast of a quotient: toward zero
TruncDiv(a, b) ==
  IF (a >= 0) = (b > 0) THEN Abs(a) \div Abs(b) ELSE -(Abs(a) \div Abs(b))

Constrain(x, lo, hi) == IF x > hi THEN hi ELSE IF x < lo THEN lo ELSE x

\* a32_safe_map_i: the input clamped to [in_min, in_max], then mapped
\* linearly onto [out_min, out_max] in int arithmetic
a32_safe_map_i(x, in_min, in_max, out_min, out_max) ==
  TruncDiv((Constrain(x, in_min, in_max) - in_min) * (out_max - out_min),
           in_max - in_min) + out_min

\* (int)a32_safe_map_d(...): the same map in exact arithmetic, the result
\* truncated toward zero by the cast
int_a32_safe_map_d(x, in_min, in_max, out_min, out_max) ==
  TruncDiv((Constrain(x, in_min, in_max) - in_min) * (out_max - out_min)
             + out_min * (in_max - in_min),
           in_max - in_min)

(* ------------------------- the steps of loop -------------------------- *)

ThresholdUnclamped(pos, rise, sens) == TruncDiv(pos * sens, rise)

\* line 151: the presence threshold at position pos
Threshold(pos, rise, sens) == a32_safe_map_i(pos, 0, rise, 0, sens)

\* line 159: last_motion > naos_millis() - pir_interval, in uint32_t
NewMotion(last, now, interval) == U32Gt(last, U32Sub(now, U32(interval)))

PublishMotionLevel(old, new) == IF new THEN <<new>> ELSE <<>>

\* lines 162-167: the motion values published for the flag going old -> new
PublishMotion(old, new) == IF old # new THEN <<new>> ELSE <<>>

IntegrateClamped(pos, change, winding) ==
  IF pos + change * winding < 0 THEN 0 ELSE pos + change * winding

\* line 170: position += rotation_change * winding_length
Integrate(pos, change, winding) == pos + change * winding

ShouldReportWide(pos, sent) == pos > sent + 2 \/ pos < sent - 2

\* line 176: the position moved more than one unit from the published one
ShouldReport(pos, sent) == pos > sent + 1 \/ pos < sent - 1

EarlyReturnNever(man) == FALSE

\* lines 181-184: loop returns before the target and the motor stage
EarlyReturn(man) == man

NewTargetSwapped(tgt, auto, mov, rise, idle) ==
  IF auto THEN (IF mov THEN idle ELSE rise) ELSE tgt

NewTargetAlways(tgt, auto, mov, rise, idle) == IF mov THEN rise ELSE idle

\* lines 187-198: the target loop applies
NewTarget(tgt, auto, mov, rise, idle) ==
  IF auto THEN (IF mov THEN rise ELSE idle) ELSE tgt

\* line 204: position within half the precision of the target
InBand(pos, tgt, precision) ==
  2 * pos < 2 * tgt + precision /\ 2 * pos > 2 * tgt - precision

UpSpeedUnclamped(dist, range, min_up, max_up) ==
  TruncDiv(dist * (max_up - min_up) + min_up * range, range)

\* line 209: the speed upwards for the distance dist
UpSpeed(dist, range, min_up, max_up) ==
  int_a32_safe_map_d(dist, 0, range, min_up, max_up)

\* line 212: the speed downwards for the distance dist
DownSpeed(dist, range, min_down, max_down) ==
  int_a32_safe_map_d(dist, 0, range, min_down, max_down) * (-1)

\* lines 204-213: the mot_set calls of the motor stage, <<>> when none
MotorStage(pos, tgt) ==
  IF InBand(pos, tgt, move_precision) THEN <<0>>
  ELSE IF pos < tgt
    THEN <<UpSpeed(tgt - pos, speed_map_range, min_up_speed, max_up_speed)>>
  ELSE IF pos > tgt
    THEN <<DownSpeed(pos - tgt, speed_map_range, min_down_speed,
                     max_down_speed)>>
  ELSE <<>>

HandlesAnyScope(topic, scope, name) == topic = name

\* lines 82, 88, 102, 113, 122, 133, 140: the condition of each branch of
\* message
Handles(topic, scope, name) == topic = name /\ scope = "local"

\* lines 114 and 134: the number a payload parses as; strtod and a32_str2d
\* yield 0 when the payload holds no number
Strtod(payload) ==
  CASE payload = "1" -> 1
    [] payload = "3" -> 3
    [] OTHER -> 0

\* line 225: the delta enc adds for the rotation rot
Recorded(rot, invert) == IF invert THEN rot * (-1) ELSE rot

\* mot_set(x) called, or no call: calls is <<x>> or <<>>
MotSet(calls) ==
  /\ mot' = IF calls = <<>> THEN mot ELSE calls[Len(calls)]
  /\ mot_calls' = Len(calls)

(* ------------------------------- Init --------------------------------- *)

\* lines 295-306: the static initialisers of the 0.1.0 variant; its motor
\* driver has not been commanded
Boot010 ==
  [winding_length |-> 0, idle_height |-> 0, rise_height |-> 0,
   max_height |-> 0, automate |-> FALSE, speed |-> 0, motion |-> FALSE,
   distance |-> 0, position |-> 0, target |-> 0, mot |-> 0]

\* the variables' static initialisers (lines 35-41), the collaborators and
\* the observation at boot
Boot ==
  /\ rotation_change = 0
  /\ motion = FALSE
  /\ last_motion = U32(0)
  /\ manual = FALSE
  /\ sent_position = 0
  /\ clock = 0
  /\ mot = 0
  /\ pc = "idle"
  /\ op = "init"
  /\ mot_calls = 0
  /\ pub_motion = <<>>
  /\ sent_motion = <<>>
  /\ pub_position = <<>>
  /\ recorded = 0
  /\ drained = 0
  /\ enc_count = 0
  /\ events = 0
  /\ cmd = "none"
  /\ cmd_val = 0
  /\ ticks = 0
  /\ threshold = <<>>

\* The state when naos_init returns: the variables hold their static
\* initialisers, the parameters the stored values (lines 228-244).
Init ==
  /\ Boot
  /\ fw010 = Boot010
  /\ automate \in BOOLEAN
  /\ winding_length = 2
  /\ idle_height = 2
  /\ rise_height = 4
  /\ min_up_speed = 350
  /\ max_up_speed = 950
  /\ min_down_speed = 350
  /\ max_down_speed = 500
  /\ speed_map_range = 3
  /\ invert_encoder = TRUE
  /\ move_precision = 2
  /\ pir_sensitivity = 2
  /\ pir_interval = 1
  /\ position = 0
  /\ target = 0

(* ------------------------------ actions ------------------------------- *)

\* what a step that is not part of loop leaves alone
NoTelemetry ==
  /\ pub_motion' = <<>>
  /\ pub_position' = <<>>
  /\ UNCHANGED <<sent_motion, sent_position>>

\* a command, parameter update or connection event named name arrives
Event(name, val) ==
  /\ pc = "idle"
  /\ events < MaxEvents
  /\ events' = events + 1
  /\ op' = name
  /\ cmd' = name
  /\ cmd_val' = val
  /\ ticks' = 0
  /\ NoTelemetry
  /\ UNCHANGED <<rotation_change, motion, last_motion, clock, pc, recorded,
                 drained, enc_count, threshold, fw010>>

\* lines 50-68
Online ==
  /\ Event("online", 0)
  /\ MotSet(<<0>>)
  /\ target' = position
  /\ UNCHANGED <<params, manual, position>>

\* lines 70-76
Offline ==
  /\ Event("offline", 0)
  /\ MotSet(<<0>>)
  /\ UNCHANGED <<params, manual, position, target>>

\* lines 101-110, payload "up" or "down"
Turn(dir) ==
  /\ Event("turn", 0)
  /\ manual' = TRUE
  /\ MotSet(IF dir = "up" THEN <<512>> ELSE <<-512>>)
  /\ UNCHANGED <<params, position, target>>

\* lines 112-119, the payload parsing as t
Move(t) ==
  /\ Event("move", t)
  /\ target' = t
  /\ automate' = FALSE
  /\ MotSet(<<>>)
  /\ UNCHANGED <<tunables, manual, position>>

\* lines 121-130
Stop ==
  /\ Event("stop", position)
  /\ MotSet(<<0>>)
  /\ manual' = FALSE
  /\ target' = position
  /\ automate' = FALSE
  /\ UNCHANGED <<tunables, position>>

\* lines 132-137, the payload parsing as p
Reset(p) ==
  /\ Event("reset", p)
  /\ position' = p
  /\ target' = p
  /\ MotSet(<<>>)
  /\ UNCHANGED <<params, manual>>

\* line 229: naos writes a new value of the automate parameter through
\* sync_b (the update callback, line 78, does nothing)
SetAutomate(b) ==
  /\ b # automate
  /\ Event("update", 0)
  /\ automate' = b
  /\ MotSet(<<>>)
  /\ UNCHANGED <<tunables, manual, position, target>>

\* lines 80-147 for any topic, payload and scope.  The step is observed as
\* "ignored" when the scope is not local, the topic is not one of Topics,
\* or the topic is turn and the payload neither "up" nor "down".
Message(topic, payload, scope) ==
  LET turn == Handles(topic, scope, "turn") /\ payload \in {"up", "down"}
      move == Handles(topic, scope, "move")
      stop == Handles(topic, scope, "stop")
      reset == Handles(topic, scope, "reset")
      new_position == IF reset THEN Strtod(payload) ELSE position
      new_target == IF move THEN Strtod(payload)
                    ELSE IF stop \/ reset THEN new_position
                    ELSE target
      name == IF /\ scope = "local"
                 /\ topic \in Topics
                 /\ topic = "turn" => payload \in {"up", "down"}
                THEN topic ELSE "ignored"
  IN /\ Event(name, IF move \/ stop \/ reset THEN new_target ELSE 0)
     /\ manual' = IF turn THEN TRUE ELSE IF stop THEN FALSE ELSE manual
     /\ MotSet(IF turn THEN (IF payload = "up" THEN <<512>> ELSE <<-512>>)
               ELSE IF stop THEN <<0>>
               ELSE <<>>)
     /\ position' = new_position
     /\ target' = new_target
     /\ automate' = IF move \/ stop THEN FALSE ELSE automate
     /\ UNCHANGED tunables

\* lines 218-221: the end stop callback, registered with the end stop
\* driver (line 263), logs and returns.  It reads and writes none of the
\* variables, so the point of loop at which it runs makes no difference;
\* it is placed between two ticks and counted with the events.
End ==
  /\ Event("end", 0)
  /\ MotSet(<<>>)
  /\ UNCHANGED <<params, manual, position, target>>

\* lines 223-226; enc may run at any point of loop
Enc(rot) ==
  /\ enc_count < MaxEnc
  /\ enc_count' = enc_count + 1
  /\ op' = "enc"
  /\ rotation_change' = rotation_change + Recorded(rot, invert_encoder)
  /\ recorded' = recorded + Recorded(rot, invert_encoder)
  /\ MotSet(<<>>)
  /\ NoTelemetry
  /\ UNCHANGED <<params, motion, last_motion, manual, position, target,
                 clock, pc, drained, events, cmd, cmd_val, ticks, threshold,
                 fw010>>

\* lines 150-170: the presence sample, the motion flag and its telemetry,
\* and the read of rotation_change.  dt1 ms have passed when line 155 reads
\* the clock, dt2 more when line 159 reads it.
LoopRead(raw, dt1, dt2) ==
  /\ pc = "idle"
  /\ clock + dt1 + dt2 <= MaxClock
  /\ threshold' = <<Threshold(position, rise_height, pir_sensitivity)>>
  /\ LET last == IF raw > threshold'[1] THEN U32(clock + dt1)
                                         ELSE last_motion
         new_motion == NewMotion(last, U32(clock + dt1 + dt2), pir_interval)
     IN /\ last_motion' = last
        /\ motion' = new_motion
        /\ pub_motion' = PublishMotion(motion, new_motion)
        /\ sent_motion' = IF PublishMotion(motion, new_motion) = <<>>
                            THEN sent_motion
                            ELSE PublishMotion(motion, new_motion)
  /\ clock' = clock + dt1 + dt2
  /\ position' = Integrate(position, rotation_change, winding_length)
  /\ drained' = drained + rotation_change
  /\ pc' = "mid"
  /\ op' = "loop"
  /\ MotSet(<<>>)
  /\ pub_position' = <<>>
  /\ UNCHANGED <<params, rotation_change, manual, sent_position, target,
                 recorded, enc_count, events, cmd, cmd_val, ticks, fw010>>

\* lines 173-213: the reset of rotation_change, the position telemetry, the
\* return in manual mode, the target and the motor command
LoopRest ==
  /\ pc = "mid"
  /\ pc' = "idle"
  /\ op' = "loop"
  /\ rotation_change' = 0
  /\ pub_position' = IF ShouldReport(position, sent_position)
                       THEN <<position>> ELSE <<>>
  /\ sent_position' = IF ShouldReport(position, sent_position)
                        THEN position ELSE sent_position
  /\ IF EarlyReturn(manual)
       THEN /\ MotSet(<<>>)
            /\ UNCHANGED target
       ELSE LET new_target == NewTarget(target, automate, motion,
                                        rise_height, idle_height)
            IN /\ target' = new_target
               /\ MotSet(MotorStage(position, new_target))
  /\ pub_motion' = <<>>
  /\ ticks' = IF ticks < 2 THEN ticks + 1 ELSE ticks
  /\ threshold' = <<>>
  /\ UNCHANGED <<params, motion, last_motion, manual, position, clock,
                 sent_motion, recorded, drained, enc_count, events, cmd,
                 cmd_val, fw010>>

\* one tick of loop
Tick ==
  \/ \E raw \in PirSamples, dt1 \in ClockSteps, dt2 \in ClockSteps :
       LoopRead(raw, dt1, dt2)
  \/ LoopRest

Next ==
  \/ Online
  \/ Offline
  \/ \E dir \in {"up", "down"} : Turn(dir)
  \/ \E t \in MoveTargets : Move(t)
  \/ Stop
  \/ \E p \in ResetPositions : Reset(p)
  \/ \E b \in BOOLEAN : SetAutomate(b)
  \/ \E rot \in Rotations : Enc(rot)
  \/ \E topic \in LedTopics : Message(topic, "100", "local")
  \/ \E m \in StrayMessages : Message(m[1], m[2], m[3])
  \/ End
  \/ Tick

Spec == Init /\ [][Next]_vars

(* ---------------- the motor stage over its whole domain --------------- *)

\* The states a reset, a move and stored parameters can leave: any
\* position, target, precision, map range and speed profile.
InitMotor ==
  /\ Boot
  /\ fw010 = Boot010
  /\ automate = FALSE
  /\ winding_length = 2
  /\ idle_height = 2
  /\ rise_height = 4
  /\ \E s \in SpeedProfiles :
       /\ min_up_speed = s[1]
       /\ max_up_speed = s[2]
       /\ min_down_speed = s[3]
       /\ max_down_speed = s[4]
  /\ speed_map_range \in MapRanges
  /\ invert_encoder = TRUE
  /\ move_precision \in Precisions
  /\ pir_sensitivity = 2
  /\ pir_interval = 1
  /\ position \in MotorPositions
  /\ target \in MotorTargets

NextMotor ==
  \/ \E raw \in PirSamples, dt1 \in ClockSteps, dt2 \in ClockSteps :
       LoopRead(raw, dt1, dt2)
  \/ LoopRest

SpecMotor == InitMotor /\ [][NextMotor]_vars

(* ------------- malformed payloads arriving at a system at rest ------- *)

\* The states a reset leaves after boot with the default precision:
\* automation off, no manual turn, the motor braked and the target at the
\* position.
InitAtRest ==
  /\ Boot
  /\ fw010 = Boot010
  /\ automate = FALSE
  /\ winding_length = 2
  /\ idle_height = 2
  /\ rise_height = 4
  /\ min_up_speed = 350
  /\ max_up_speed = 950
  /\ min_down_speed = 350
  /\ max_down_speed = 500
  /\ speed_map_range = 3
  /\ invert_encoder = TRUE
  /\ move_precision = 1
  /\ pir_sensitivity = 2
  /\ pir_interval = 1
  /\ position \in AtRestPositions
  /\ target = position

\* the only input is a move or a reset whose payload holds no number; the
\* encoder is silent
NextAtRest ==
  \/ \E payload \in MalformedPayloads : Message("move", payload, "local")
  \/ \E payload \in MalformedPayloads : Message("reset", payload, "local")
  \/ Tick

SpecAtRest == InitAtRest /\ [][NextAtRest]_vars

(* --------------- the presence threshold over its domain -------------- *)

\* The states a reset leaves after boot, for the positions, rise heights
\* and sensitivities of the sets above.
InitSense ==
  /\ Boot
  /\ fw010 = Boot010
  /\ automate = FALSE
  /\ winding_length = 2
  /\ idle_height = 2
  /\ rise_height \in SenseHeights
  /\ min_up_speed = 350
  /\ max_up_speed = 950
  /\ min_down_speed = 350
  /\ max_down_speed = 500
  /\ speed_map_range = 3
  /\ invert_encoder = TRUE
  /\ move_precision = 1
  /\ pir_sensitivity \in Sensitivities
  /\ pir_interval = 1
  /\ position \in SensePositions
  /\ target = position

\* ticks, and the encoder moving the position
NextSense ==
  \/ \E rot \in Rotations : Enc(rot)
  \/ Tick

SpecSense == InitSense /\ [][NextSense]_vars

(* ------------- automation settling at the idle height ---------------- *)

\* The states online leaves with idle_height = 100, rise_height = 150 and
\* automation on: the target at the position, the motor braked.  One
\* rotation winds one unit, half of move_precision.
InitIdle ==
  /\ Boot
  /\ fw010 = Boot010
  /\ automate = TRUE
  /\ winding_length = 1
  /\ idle_height = 100
  /\ rise_height = 150
  /\ min_up_speed = 350
  /\ max_up_speed = 950
  /\ min_down_speed = 350
  /\ max_down_speed = 500
  /\ speed_map_range = 20
  /\ invert_encoder = TRUE
  /\ move_precision = 2
  /\ pir_sensitivity = 300
  /\ pir_interval = 1
  /\ position \in IdleStarts
  /\ target = position

\* lines 223-226, called by the encoder of a curtain that follows the
\* motor: while the motor is commanded to move and the loop has read the
\* rotation reported before, the encoder reports one rotation in the
\* commanded direction.  The sums recorded and enc_count observe Enc only.
EncFollow ==
  /\ mot # 0
  /\ rotation_change = 0
  /\ \E rot \in {-1, 1} :
       /\ (Recorded(rot, invert_encoder) > 0) = (mot > 0)
       /\ rotation_change' = rotation_change + Recorded(rot, invert_encoder)
  /\ op' = "enc"
  /\ MotSet(<<>>)
  /\ NoTelemetry
  /\ UNCHANGED <<params, motion, last_motion, manual, position, target,
                 clock, pc, history, threshold, fw010>>

\* one tick of loop in a room without presence
TickIdle ==
  \/ \E raw \in QuietSamples, dt1 \in ClockSteps, dt2 \in ClockSteps :
       LoopRead(raw, dt1, dt2)
  \/ LoopRest

NextIdle ==
  \/ EncFollow
  \/ TickIdle

\* naos calls loop again and again (loop_interval = 0, line 251), and the
\* encoder of a moving curtain reports
SpecIdle ==
  InitIdle /\ [][NextIdle]_vars /\ WF_vars(TickIdle) /\ WF_vars(EncFollow)

(* -------------------------- the 0.1.0 variant ------------------------- *)

\* what the steps of the 0.1.0 variant leave alone: the 0.7.0 firmware
fw070 == <<params, rotation_change, motion, last_motion, manual, position,
           sent_position, target, clock, mot, pc, mot_calls, pub_motion,
           sent_motion, pub_position, history, threshold>>

\* lines 440-445: the distance loop keeps for the reading new_distance
Distance010(distance, new_distance) ==
  IF new_distance > distance + 2 \/ new_distance < distance - 2
    THEN new_distance ELSE distance

\* lines 464-485: the target loop applies
NewTarget010(tgt, auto, mov, distance, pos, rise, max, idle) ==
  IF auto
    THEN IF mov
           THEN LET new_target == IF distance > 25 + 1 THEN pos - 1
                                  ELSE IF distance < 25 - 1 THEN pos + 1
                                  ELSE tgt
                IN IF new_target < rise THEN rise
                   ELSE IF tgt > max THEN max
                   ELSE new_target
           ELSE idle
    ELSE tgt

\* lines 496-505: the argument of the mot_set call of loop
Motor010(pos, tgt, speed) ==
  IF pos < tgt + 1 /\ pos > tgt - 1 THEN 0
  ELSE IF pos < tgt THEN speed
  ELSE speed * (-1)

\* The states online, move and reset leave: the settings read, any
\* position and target of the sets above.
Init010 ==
  /\ Boot
  /\ automate = FALSE
  /\ winding_length = 2
  /\ idle_height = 2
  /\ rise_height = 4
  /\ min_up_speed = 350
  /\ max_up_speed = 950
  /\ min_down_speed = 350
  /\ max_down_speed = 500
  /\ speed_map_range = 3
  /\ invert_encoder = TRUE
  /\ move_precision = 1
  /\ pir_sensitivity = 2
  /\ pir_interval = 1
  /\ position = 0
  /\ target = 0
  /\ \E auto \in BOOLEAN, pos \in Positions010, tgt \in Targets010 :
       fw010 = [winding_length |-> 1, idle_height |-> 2, rise_height |-> 3,
                max_height |-> 5, automate |-> auto, speed |-> 100,
                motion |-> FALSE, distance |-> 0, position |-> pos,
                target |-> tgt, mot |-> 0]

\* lines 375-377: the automate setting is updated
Update010(auto) ==
  /\ auto # fw010.automate
  /\ op' = "update"
  /\ fw010' = [fw010 EXCEPT !.automate = auto]
  /\ UNCHANGED fw070

\* lines 388-390
Move010(t) ==
  /\ op' = "move"
  /\ fw010' = [fw010 EXCEPT !.target = t]
  /\ UNCHANGED fw070

\* lines 393-396
Stop010 ==
  /\ op' = "stop"
  /\ fw010' = [fw010 EXCEPT !.target = fw010.position, !.mot = 0]
  /\ UNCHANGED fw070

\* lines 404-407
Reset010(p) ==
  /\ op' = "reset"
  /\ fw010' = [fw010 EXCEPT !.position = p, !.target = p]
  /\ UNCHANGED fw070

\* lines 419-512 without the light: pir_get returns new_motion, dist_get
\* rounds to new_distance and enc_get returns change
Loop010(new_motion, new_distance, change) ==
  LET distance == Distance010(fw010.distance, new_distance)
      pos == fw010.position + change * fw010.winding_length
      new_target == NewTarget010(fw010.target, fw010.automate, new_motion,
                                 distance, pos, fw010.rise_height,
                                 fw010.max_height, fw010.idle_height)
  IN /\ pos \in Positions010
     /\ op' = "loop"
     /\ fw010' = [fw010 EXCEPT !.motion = new_motion,
                                !.distance = distance,
                                !.position = pos,
                                !.target = new_target,
                                !.mot = Motor010(pos, new_target,
                                                 fw010.speed)]
     /\ UNCHANGED fw070

Next010 ==
  \/ \E auto \in BOOLEAN : Update010(auto)
  \/ \E t \in Targets010 : Move010(t)
  \/ Stop010
  \/ \E p \in Targets010 : Reset010(p)
  \/ \E new_motion \in BOOLEAN, new_distance \in Distances010,
        change \in Rotations010 :
       Loop010(new_motion, new_distance, change)

Spec010 == Init010 /\ [][Next010]_vars

(* ------------------------------ claims -------------------------------- *)

\* C1: whenever no tick is under way, every delta enc recorded has been
\* integrated exactly once or is still pending in rotation_change: the sum
\* of the deltas drained by ticks plus the pending delta equals the sum of
\* the deltas recorded.
C1_NoDeltaLost == pc = "idle" => recorded = drained + rotation_change

\* C2: after turn, move, stop or reset is handled the automate flag is
\* false, and automate and manual are never both true.
C2_CommandsDisableAutomate ==
  /\ op \in {"turn", "move", "stop", "reset"} => ~automate
  /\ ~(automate /\ manual)

\* C3: at the end of every tick that runs with automate = true and
\* manual = false, target is rise_height if the motion flag of that tick is
\* true and idle_height otherwise.
C3_AutomatedTarget ==
  (op = "loop" /\ pc = "idle" /\ automate /\ ~manual)
    => target = IF motion THEN rise_height ELSE idle_height

\* a tick ended with motion detected: automation replaced the target 1 that
\* a reset had left by rise_height
C3_Witness ==
  /\ op = "loop" /\ pc = "idle" /\ automate /\ ~manual
  /\ cmd = "reset" /\ ticks = 1
  /\ motion /\ target = rise_height /\ target # cmd_val

\* C4: a tick that runs while manual = true makes no mot_set call and
\* leaves target unchanged, also when automate = true; it still integrates
\* the pending delta into position and publishes the position; and the
\* motor command stays the +512 / -512 of turn until a stop, online or
\* offline event.
C4_ManualTick ==
  [][ /\ (manual /\ pc = "mid")
           => (target' = target /\ mot' = mot /\ mot_calls' = 0)
      /\ (manual /\ pc = "idle" /\ pc' = "mid")
           => position' = position + rotation_change * winding_length
      /\ (manual /\ pc = "mid" /\ pc' = "idle")
           => (pub_position' # <<>>
                 <=> (position - sent_position > 1
                        \/ sent_position - position > 1))
      /\ (manual /\ mot \in {512, -512}
            /\ op' \notin {"stop", "online", "offline"})
           => mot' \in {512, -512}
    ]_vars

\* a tick ended in manual mode with automate = true: it integrated a delta
\* and published the position, and the motor still turns upwards
C4_Witness ==
  /\ op = "loop" /\ pc = "idle" /\ manual /\ automate
  /\ cmd = "turn" /\ ticks = 1
  /\ mot = 512 /\ mot_calls = 0
  /\ position # 0 /\ pub_position = <<position>>
  /\ target = 0

\* C5: stop brakes the motor, clears manual, sets target to the current
\* position and disables automate; until the next command, parameter update
\* or connection event, target stays the position stop found.
C5_StopFreezes ==
  /\ op = "stop" => (mot = 0 /\ mot_calls = 1 /\ target = position)
  /\ cmd = "stop" => (target = cmd_val /\ ~manual /\ ~automate)

\* two or more ticks after a stop the encoder has moved the position away,
\* the target is still the position stop found and the motor drives back
C5_Witness ==
  /\ cmd = "stop" /\ ticks = 2 /\ op = "loop" /\ pc = "idle"
  /\ position # cmd_val /\ target = cmd_val /\ mot # 0

\* C6: reset(p) sets position and target to p, and the first tick after it
\* issues the brake command.
C6_ResetThenBrake ==
  /\ op = "reset" => (position = cmd_val /\ target = cmd_val)
  /\ (cmd = "reset" /\ ticks = 1 /\ op = "loop" /\ pc = "idle")
       => (mot_calls = 1 /\ mot = 0)

\* C7: a tick that reaches the motor stage issues the brake command when
\* |target - position| <= move_precision / 2 and a non-brake command
\* otherwise.
C7_BrakeInsideBand ==
  (op = "loop" /\ pc = "idle" /\ ~manual)
    => /\ mot_calls = 1
       /\ mot = 0 <=> 2 * Abs(target - position) <= move_precision

\* C8: a non-brake command of a tick has the sign of error = target -
\* position, a magnitude inside [min, max] of its direction that is the
\* linear map of min(|error|, speed_map_range) from [0, speed_map_range]
\* onto [min, max], cut to an integer; it is max when |error| >=
\* speed_map_range.
C8_SpeedMap ==
  (op = "loop" /\ pc = "idle" /\ mot_calls = 1 /\ mot # 0)
    => LET error == target - position
           up == error > 0
           lo == IF up THEN min_up_speed ELSE min_down_speed
           hi == IF up THEN max_up_speed ELSE max_down_speed
           dist == IF Abs(error) > speed_map_range THEN speed_map_range
                                                   ELSE Abs(error)
           exact == dist * (hi - lo) + lo * speed_map_range
       IN /\ error # 0
          /\ up <=> mot > 0
          /\ lo <= Abs(mot) /\ Abs(mot) <= hi
          /\ Abs(mot) * speed_map_range <= exact
          /\ exact < (Abs(mot) + 1) * speed_map_range
          /\ Abs(error) >= speed_map_range => Abs(mot) = hi

\* a tick found the position 2 below the target with the map range 3 and
\* the speeds 350..950: it commanded 350 + 2/3 * 600 = 750 upwards
C8_Witness ==
  /\ op = "loop" /\ pc = "idle" /\ mot_calls = 1
  /\ target - position = 2 /\ speed_map_range = 3
  /\ min_up_speed = 350 /\ max_up_speed = 950
  /\ mot = 750

\* C9: after every tick the motion flag is true if and only if
\* now - last_motion < pir_interval, for every value of the clock.
C9_MotionIffRecent ==
  op = "loop"
    => (motion <=> U32Lt(U32Sub(U32(clock), last_motion), U32(pir_interval)))

\* C10: a step publishes the motion telemetry if and only if it is a tick
\* whose motion flag differs from the flag before; the value published is
\* the new flag, it differs from the value published before, and the first
\* value published is true.
C10_MotionEdges ==
  [][ /\ pub_motion' # <<>>
           <=> (pc = "idle" /\ pc' = "mid" /\ motion' # motion)
      /\ pub_motion' # <<>>
           => /\ pub_motion' = <<motion'>>
              /\ pub_motion' # sent_motion
              /\ sent_motion = <<>> => motion'
    ]_vars

\* a tick published motion = false after an earlier tick had published
\* motion = true
C10_Witness ==
  /\ op = "loop" /\ pc = "mid"
  /\ pub_motion = <<FALSE>> /\ sent_motion = <<FALSE>> /\ ~motion

\* C11: a tick publishes the position and sets sent_position to it if and
\* only if, after integrating, |position - sent_position| > 1; no other
\* step writes sent_position or publishes the position; and at the end of
\* every tick |position - sent_position| <= 1.
C11_PositionReport ==
  [][ /\ (pc = "mid" /\ pc' = "idle")
           => /\ pub_position' # <<>> <=> Abs(position - sent_position) > 1
              /\ pub_position' # <<>>
                   => (pub_position' = <<position>>
                         /\ sent_position' = position)
              /\ pub_position' = <<>> => sent_position' = sent_position
              /\ Abs(position' - sent_position') <= 1
      /\ ~(pc = "mid" /\ pc' = "idle")
           => (sent_position' = sent_position /\ pub_position' = <<>>)
    ]_vars

\* a reset moved the position one unit from the published one and an
\* encoder delta moved it further: the tick published the position
C11_Witness ==
  /\ op = "loop" /\ pc = "idle" /\ cmd = "reset" /\ ticks = 1
  /\ pub_position = <<position>> /\ sent_position = position
  /\ position # cmd_val

\* C12: position is written only by a tick and by reset: a tick adds
\* exactly the delta it drained times winding_length, without clamping,
\* reset(p) sets it to p, and every other step (turn, move, stop, flash,
\* disco, online, offline, end stop, enc) leaves it unchanged; so between
\* two resets position minus winding_length times the sum of the drained
\* deltas is constant: after n ticks following reset(p) position is p plus
\* the sum over those ticks of drained delta times winding_length.
C12_PositionWrites ==
  [][ /\ (pc = "idle" /\ pc' = "mid")
           => /\ position' = position + rotation_change * winding_length
              /\ drained' = drained + rotation_change
      /\ op' = "reset" => position' = cmd_val'
      /\ (op' # "reset" /\ ~(pc = "idle" /\ pc' = "mid"))
           => position' = position
      /\ op' # "reset"
           => position' - drained' * winding_length'
                = position - drained * winding_length
    ]_vars

\* two ticks after reset(1) each integrated a delta of -1 with
\* winding_length 2: the position is 1 - 2 - 2, below zero
C12_Witness ==
  /\ cmd = "reset" /\ cmd_val = 1 /\ ticks = 2
  /\ op = "loop" /\ pc = "idle"
  /\ position = -3

\* C13: after the end stop callback has run the last motor command is
\* brake (0), from any state.
C13_EndStopBrakes == op = "end" => mot = 0

\* C19: a message whose scope is not local, whose topic is none of the
\* handled ones, or a turn whose payload is neither "up" nor "down", leaves
\* target, position, manual, automate and the last motor command unchanged.
C19_StrayMessage ==
  [][ op' = "ignored"
        => /\ target' = target
           /\ position' = position
           /\ manual' = manual
           /\ automate' = automate
           /\ mot' = mot /\ mot_calls' = 0
    ]_vars

\* a stray message arrived during a manual turn with automate = true: the
\* motor still turns and both flags are still set
C19_Witness ==
  /\ op = "ignored" /\ manual /\ automate /\ mot \in {512, -512}

\* C14: a system braked at its target stays braked after a move or a reset
\* whose payload does not parse as a number, and after every later tick
\* (under SpecAtRest every move and reset carries such a payload).
C14_MalformedKeepsBrake == cmd \in {"move", "reset"} => mot = 0

\* C15: after move(t), until the next command, target stays t and every
\* tick issues the motor command that t - position determines: brake inside
\* the precision band, otherwise a speed towards t; also when a turn came
\* before the move.
C15_MoveSupersedes ==
  cmd = "move"
    => /\ target = cmd_val
       /\ (op = "loop" /\ pc = "idle")
            => /\ mot_calls = 1
               /\ InBand(position, target, move_precision) => mot = 0
               /\ ~InBand(position, target, move_precision)
                    => (mot # 0 /\ (mot > 0 <=> target > position))

\* C17: the threshold a tick computes from the position before its
\* integration lies in [0, pir_sensitivity], is 0 for a position <= 0 and
\* pir_sensitivity for a position >= rise_height, is the linear map of the
\* position from [0, rise_height] onto [0, pir_sensitivity] cut to an
\* integer in between, and is not below the threshold of any lower
\* position.
C17_Threshold ==
  [][ (pc = "idle" /\ pc' = "mid")
        => /\ Len(threshold') = 1
           /\ LET th == threshold'[1]
              IN /\ 0 <= th /\ th <= pir_sensitivity
                 /\ position <= 0 => th = 0
                 /\ position >= rise_height => th = pir_sensitivity
                 /\ (0 <= position /\ position <= rise_height)
                      => /\ th * rise_height <= position * pir_sensitivity
                         /\ position * pir_sensitivity
                              < (th + 1) * rise_height
                 /\ \A q \in SensePositions :
                      q <= position
                        => Threshold(q, rise_height, pir_sensitivity) <= th
    ]_vars

\* a tick that integrated a delta computed its threshold from the position
\* 3 it started at: 3 of the rise height 4 maps to 3 of the sensitivity 5
C17_Witness ==
  /\ pc = "mid" /\ rise_height = 4 /\ pir_sensitivity = 5
  /\ position = 1 /\ drained = -1 /\ recorded = -1
  /\ threshold = <<3>>

\* C18: in the 0.1.0 variant, with rise_height <= max_height, at the end
\* of every tick that runs with automate = true and motion = true the
\* target lies inside [rise_height, max_height].
C18_TargetInRange ==
  (op = "loop" /\ fw010.automate /\ fw010.motion
     /\ fw010.rise_height <= fw010.max_height)
    => (fw010.rise_height <= fw010.target
          /\ fw010.target <= fw010.max_height)

\* C16: with idle_height = 100, rise_height = 150, automation on and no
\* presence, the target is 100 from the end of the first tick on, and the
\* loop eventually commands brake with |position - 100| < move_precision /
\* 2 and keeps the motor braked from then on.
C16_SettlesAtIdle ==
  /\ [](ticks >= 1 => target = 100)
  /\ <>[](mot = 0 /\ 2 * Abs(position - 100) < move_precision)

====
